---- MODULE Spec2Model ----
(***************************************************************************)
(* Newton's-method solver of the visualizer (utils/newton.js, utils/       *)
(* mathParser.js).  Numbers are JavaScript doubles in the program; here    *)
(* they are decimal floating-point values m * 10^e with a mantissa of      *)
(* Digits significant digits, rounded after every arithmetic operation,    *)
(* with the three non-finite values NaN, Infinity and -Infinity, overflow  *)
(* to an infinity and underflow to zero.                                   *)
(***************************************************************************)
EXTENDS Integers, Sequences, FiniteSets, TLC

VARIABLES
  expression,  \* the expression the solver was constructed from
  iterations,  \* the solver's history of iteration records
  currentX,    \* the solver's current iterate, Null before a guess is set
  lastOp,      \* the method called last
  lastArg,     \* its argument (the guess of setInitialGuess), else Null
  error,       \* the error that call threw, NoError when it returned
  before,      \* iterations and currentX as they were when it was called,
               \* and the error of the call before it
  guessSet,    \* a setInitialGuess succeeded since construction or reset
  value,       \* what the last call of the compiled function returned
  validation,  \* the text last given to validateExpression, and its result
  returned,    \* the array a caller holds from its last getIterations()
  solverB,     \* a second solver, from another call of createNewtonSolver
  lastInst,    \* the solver whose method was called last, "A" or "B"
  app,         \* the state of the App component, NoApp outside the application
  progress     \* the last two calls of getConvergenceProgress

vars ==
  <<expression, iterations, currentX, lastOp, lastArg, error, before, guessSet,
    value, validation, returned, solverB, lastInst, app, progress>>

\* what lies outside the one solver's closure
others == <<value, validation, returned, solverB, lastInst, app, progress>>

---------------------------------------------------------------------------
(* Bounds of the model *)

\* significant decimal digits kept by every arithmetic operation
Digits == 3

\* the longest history a run builds
MaxIter == 5

\* the longest history a run builds when it follows one expression far
MaxLongIter == 22

---------------------------------------------------------------------------
(* Numbers *)

\* largest and smallest decimal exponent of a finite nonzero double
MaxExp10 == 308
MinExp10 == -324

RECURSIVE Pow10(_)
Pow10(n) == IF n <= 0 THEN 1 ELSE 10 * Pow10(n - 1)

RECURSIVE NumDigits(_)
NumDigits(n) == IF n < 10 THEN 1 ELSE 1 + NumDigits(n \div 10)

IntAbs(n) == IF n < 0 THEN -n ELSE n
IntSign(n) == IF n < 0 THEN -1 ELSE IF n > 0 THEN 1 ELSE 0

NaN == [k |-> "nan", m |-> 0, e |-> 0]
Infinity == [k |-> "inf", m |-> 0, e |-> 0]
NegInfinity == [k |-> "ninf", m |-> 0, e |-> 0]
Zero == [k |-> "fin", m |-> 0, e |-> 0]
\* JavaScript's null, the value of currentX before a guess is set
Null == [k |-> "null", m |-> 0, e |-> 0]

SignedInfinity(s) == IF s < 0 THEN NegInfinity ELSE Infinity

\* the double nearest to m * 10^e: the mantissa rounded to Digits digits,
\* an infinity beyond the largest double, zero below the smallest
InRange(s, q, ex) ==
  IF ex + Digits - 1 > MaxExp10 THEN SignedInfinity(s)
  ELSE IF ex + Digits - 1 < MinExp10 THEN Zero
  ELSE [k |-> "fin", m |-> s * q, e |-> ex]

\* a mantissa a shifted right by shift digits, rounded half up
Rounded(a, shift) ==
  IF shift > 0
  THEN (a + 5 * Pow10(shift - 1)) \div Pow10(shift)
  ELSE a * Pow10(-shift)

\* rounding 99..9 up carries into one more digit
Carried(s, q0, ex) ==
  IF q0 >= Pow10(Digits) THEN InRange(s, q0 \div 10, ex + 1)
  ELSE InRange(s, q0, ex)

Shifted(s, a, e, shift) == Carried(s, Rounded(a, shift), e + shift)

Num(m, e) ==
  IF m = 0 THEN Zero
  ELSE Shifted(IntSign(m), IntAbs(m), e, NumDigits(IntAbs(m)) - Digits)

isFinite(v) == v.k = "fin"
isNaN(v) == v.k = "nan"

\* sign of a number that is not NaN: -1, 0 or 1
SignOf(v) ==
  IF v.k = "inf" THEN 1
  ELSE IF v.k = "ninf" THEN -1
  ELSE IntSign(v.m)

Neg(v) ==
  IF v.k = "inf" THEN NegInfinity
  ELSE IF v.k = "ninf" THEN Infinity
  ELSE IF v.k = "fin" THEN [v EXCEPT !.m = -v.m]
  ELSE v

\* Math.abs
Abs(v) == IF v.k = "ninf" THEN Infinity
          ELSE IF v.k = "fin" THEN [v EXCEPT !.m = IntAbs(v.m)]
          ELSE v

\* hi + lo for finite nonzero hi and lo with hi.e >= lo.e; a lo too small to
\* reach the last digit of hi is lost
Aligned(hi, lo) ==
  IF hi.e - lo.e > Digits + 1 THEN hi
  ELSE Num(hi.m * Pow10(hi.e - lo.e) + lo.m, lo.e)

Add(a, b) ==
  IF isNaN(a) \/ isNaN(b) THEN NaN
  ELSE IF ~isFinite(a) /\ ~isFinite(b) THEN (IF a = b THEN a ELSE NaN)
  ELSE IF ~isFinite(a) THEN a
  ELSE IF ~isFinite(b) THEN b
  ELSE IF a.m = 0 THEN b
  ELSE IF b.m = 0 THEN a
  ELSE IF a.e >= b.e THEN Aligned(a, b)
  ELSE Aligned(b, a)

Sub(a, b) == Add(a, Neg(b))

Mul(a, b) ==
  IF isNaN(a) \/ isNaN(b) THEN NaN
  ELSE IF ~isFinite(a) \/ ~isFinite(b)
       THEN (IF SignOf(a) * SignOf(b) = 0 THEN NaN
             ELSE SignedInfinity(SignOf(a) * SignOf(b)))
  ELSE Num(a.m * b.m, a.e + b.e)

Div(a, b) ==
  IF isNaN(a) \/ isNaN(b) THEN NaN
  ELSE IF ~isFinite(a) /\ ~isFinite(b) THEN NaN
  ELSE IF ~isFinite(a)
       THEN SignedInfinity(SignOf(a) * (IF SignOf(b) < 0 THEN -1 ELSE 1))
  ELSE IF ~isFinite(b) THEN Zero
  ELSE IF b.m = 0 THEN (IF a.m = 0 THEN NaN ELSE SignedInfinity(SignOf(a)))
  ELSE IF a.m = 0 THEN Zero
  ELSE Num(IntSign(a.m) * IntSign(b.m)
             * ((IntAbs(a.m) * Pow10(Digits + 1)) \div IntAbs(b.m)),
           a.e - b.e - (Digits + 1))

\* a < b on numbers; false when either is NaN, as every comparison with NaN
Less(a, b) ==
  IF isNaN(a) \/ isNaN(b) THEN FALSE
  ELSE IF a = b THEN FALSE
  ELSE IF a.k = "ninf" \/ b.k = "inf" THEN TRUE
  ELSE IF a.k = "inf" \/ b.k = "ninf" THEN FALSE
  ELSE IF SignOf(a) # SignOf(b) THEN SignOf(a) < SignOf(b)
  ELSE IF SignOf(a) > 0
       THEN a.e < b.e \/ (a.e = b.e /\ a.m < b.m)
       ELSE a.e > b.e \/ (a.e = b.e /\ a.m < b.m)

---------------------------------------------------------------------------
(* Expression engine: utils/mathParser.js over the math.js evaluator *)

\* the outcome of an evaluation that raised instead of returning a number
Throw == [k |-> "throw", m |-> 0, e |-> 0]

\* expressions that compile, each with the derivative math.js gives for it
Expressions ==
  { "x^2 - 2", "x^2 - 4", "x^2", "x^3 - 2*x + 2", "1/x", "1/x - 1",
    "abs(x)", "5", "1e-11*x + 1e300", "sign(x)", "x + y" }

\* expressions math.js cannot differentiate symbolically (derivative() throws)
NotDifferentiable == { "sign(x)" }

\* a math.js Complex object with real part 0 and imaginary part im
Complex(im) == [k |-> "complex", m |-> im.m, e |-> im.e]

\* a JavaScript function object, what a bare function symbol evaluates to
FunctionObject == [k |-> "function", m |-> 0, e |-> 0]

\* typeof v === "number"
IsNumber(v) == v.k \in {"fin", "nan", "inf", "ninf"}

RECURSIVE ISqrtBetween(_, _, _)
ISqrtHalf(n, lo, hi, mid) ==
  IF mid * mid <= n THEN ISqrtBetween(n, mid, hi)
  ELSE ISqrtBetween(n, lo, mid - 1)

\* the largest r in lo..hi with r * r <= n
ISqrtBetween(n, lo, hi) ==
  IF lo >= hi THEN lo ELSE ISqrtHalf(n, lo, hi, (lo + hi + 1) \div 2)

\* Math.sqrt of a positive finite number
SqrtOf(x) ==
  Num(ISqrtBetween(x.m * Pow10(x.e % 2) * 10000, 0, 40000),
      (x.e - (x.e % 2)) \div 2 - 2)

\* math.js sqrt(x) on a number: a Complex for a negative argument
Sqrt(x) ==
  IF isNaN(x) THEN NaN
  ELSE IF x = Infinity THEN Infinity
  ELSE IF x = NegInfinity THEN Complex(Infinity)
  ELSE IF x.m = 0 THEN Zero
  ELSE IF x.m < 0 THEN Complex(SqrtOf(Neg(x)))
  ELSE SqrtOf(x)

\* expressions given to the expression engine alone
EngineExpressions ==
  { "x^2 - 2", "1/x", "x + y", "sqrt(x)", "sqrt(x - 2)", "0/(x - 1)" }

\* math.js sign(x) on a number
Sign(x) == IF isNaN(x) THEN NaN ELSE Num(SignOf(x), 0)

\* compiled.evaluate({ x }) of compile(expression)
compiledEvaluate(expr, x) ==
  CASE expr = "x^2 - 2" -> Sub(Mul(x, x), Num(2, 0))
    [] expr = "x^2 - 4" -> Sub(Mul(x, x), Num(4, 0))
    [] expr = "x^2" -> Mul(x, x)
    [] expr = "x^3 - 2*x + 2" ->
         Add(Sub(Mul(Mul(x, x), x), Mul(Num(2, 0), x)), Num(2, 0))
    [] expr = "1/x" -> Div(Num(1, 0), x)
    [] expr = "1/x - 1" -> Sub(Div(Num(1, 0), x), Num(1, 0))
    [] expr = "abs(x)" -> Abs(x)
    [] expr = "5" -> Num(5, 0)
    [] expr = "1e-11*x + 1e300" -> Add(Mul(Num(1, -11), x), Num(1, 300))
    [] expr = "sign(x)" -> Sign(x)
    \* y is an undefined symbol: the evaluation raises
    [] expr = "x + y" -> Throw
    \* the text of a symbolic derivative, derivative(expression, "x").toString()
    [] expr = "2 * x" -> Mul(Num(2, 0), x)
    [] expr = "3 * x ^ 2 - 2" -> Sub(Mul(Num(3, 0), Mul(x, x)), Num(2, 0))
    [] expr = "-(1 / x ^ 2)" -> Neg(Div(Num(1, 0), Mul(x, x)))
    [] expr = "abs(x) / x" -> Div(Abs(x), x)
    [] expr = "0" -> Zero
    [] expr = "1e-11" -> Num(1, -11)
    [] expr = "1" -> Num(1, 0)
    \* expressions of EngineExpressions
    [] expr = "sqrt(x)" -> Sqrt(x)
    [] expr = "sqrt(x - 2)" -> Sqrt(Sub(x, Num(2, 0)))
    [] expr = "0/(x - 1)" -> Div(Zero, Sub(x, Num(1, 0)))
    \* a function symbol alone evaluates to the function
    [] expr \in {"floor", "abs", "sin"} -> FunctionObject
    \* an undefined symbol, or the sum of two functions: the evaluation raises
    [] expr \in {"y", "qwerty", "SIN", "cos + sin"} -> Throw

\* derivative(expression, "x").toString()
derivativeExpr(expr) ==
  CASE expr \in {"x^2 - 2", "x^2 - 4", "x^2"} -> "2 * x"
    [] expr = "x^3 - 2*x + 2" -> "3 * x ^ 2 - 2"
    [] expr \in {"1/x", "1/x - 1"} -> "-(1 / x ^ 2)"
    [] expr = "abs(x)" -> "abs(x) / x"
    [] expr = "5" -> "0"
    [] expr = "1e-11*x + 1e300" -> "1e-11"
    [] expr = "x + y" -> "1"

\* the function createFunction(expression) returns, applied to x
\* try { return compiled.evaluate({ x }) } catch { return NaN }
Caught(v) == IF v = Throw THEN NaN ELSE v

f(expr, x) == Caught(compiledEvaluate(expr, x))

\* a central difference over a step ten thousand times wider
h_Coarse == Num(1, -4)

\* step size of the central difference
h == Num(1, -8)

numericalDerivative(expr, x, hh) ==
  Div(Sub(f(expr, Add(x, hh)), f(expr, Sub(x, hh))), Mul(Num(2, 0), hh))

\* the function createDerivative(expression) returns, applied to x
fPrime(expr, x) ==
  IF expr \notin NotDifferentiable
  THEN f(derivativeExpr(expr), x)
  ELSE numericalDerivative(expr, x, h)

---------------------------------------------------------------------------
(* validateExpression: a text is a sequence of characters *)

RECURSIVE Join(_)
\* the string of a sequence of characters
Join(s) == IF s = <<>> THEN "" ELSE Head(s) \o Join(Tail(s))

UpperCase ==
  << "A", "B", "C", "D", "E", "F", "G", "H", "I", "J", "K", "L", "M",
     "N", "O", "P", "Q", "R", "S", "T", "U", "V", "W", "X", "Y", "Z" >>

LowerCase ==
  << "a", "b", "c", "d", "e", "f", "g", "h", "i", "j", "k", "l", "m",
     "n", "o", "p", "q", "r", "s", "t", "u", "v", "w", "x", "y", "z" >>

DigitChars == { "0", "1", "2", "3", "4", "5", "6", "7", "8", "9" }

\* the character compared under the regular expression flag i
Lower(c) ==
  IF \E i \in 1..26 : UpperCase[i] = c
  THEN LowerCase[CHOOSE i \in 1..26 : UpperCase[i] = c]
  ELSE c

\* \s and \w of a regular expression
IsSpace(c) == c \in { " ", "\t", "\n" }
IsWord(c) ==
  \/ \E i \in 1..26 : LowerCase[i] = Lower(c)
  \/ c \in DigitChars
  \/ c = "_"

RECURSIVE TrimStart(_)
TrimStart(s) ==
  IF s # <<>> /\ IsSpace(Head(s)) THEN TrimStart(Tail(s)) ELSE s

RECURSIVE TrimEnd(_)
TrimEnd(s) ==
  IF s # <<>> /\ IsSpace(s[Len(s)])
  THEN TrimEnd(SubSeq(s, 1, Len(s) - 1))
  ELSE s

\* expression.trim()
trim(s) == TrimEnd(TrimStart(s))

\* word occurs in s from position i on, letters compared without case
OccursAt(s, word, i) ==
  /\ i + Len(word) - 1 <= Len(s)
  /\ \A j \in 1..Len(word) : Lower(s[i + j - 1]) = word[j]

Contains(s, word) == \E i \in 1..Len(s) : OccursAt(s, word, i)

RECURSIVE SkipSpaces(_, _)
\* the first position from i on that holds no white space
SkipSpaces(s, i) ==
  IF i <= Len(s) /\ IsSpace(s[i]) THEN SkipSpaces(s, i + 1) ELSE i

\* (?!\s*\() at position i
NoParenthesisFrom(s, i) == ~(i <= Len(s) /\ s[i] = "(")

\* \bfunc\b(?!\s*\() matches at position i
MissingArgumentAt(s, func, i) ==
  /\ OccursAt(s, func, i)
  /\ i = 1 \/ ~IsWord(s[i - 1])
  /\ i + Len(func) > Len(s) \/ ~IsWord(s[i + Len(func)])
  /\ NoParenthesisFrom(s, SkipSpaces(s, i + Len(func)))

\* regex.test(trimmed)
MissingArgument(s, func) == \E i \in 1..Len(s) : MissingArgumentAt(s, func, i)

functionsRequiringArgs ==
  << <<"s", "i", "n">>, <<"c", "o", "s">>, <<"t", "a", "n">>,
     <<"a", "s", "i", "n">>, <<"a", "c", "o", "s">>, <<"a", "t", "a", "n">>,
     <<"s", "i", "n", "h">>, <<"c", "o", "s", "h">>, <<"t", "a", "n", "h">>,
     <<"a", "s", "i", "n", "h">>, <<"a", "c", "o", "s", "h">>,
     <<"a", "t", "a", "n", "h">>,
     <<"l", "o", "g">>, <<"l", "o", "g", "1", "0">>, <<"l", "o", "g", "2">>,
     <<"l", "n">>, <<"e", "x", "p">>, <<"s", "q", "r", "t">>,
     <<"a", "b", "s">>, <<"c", "e", "i", "l">>, <<"f", "l", "o", "o", "r">>,
     <<"r", "o", "u", "n", "d">>, <<"s", "i", "g", "n">> >>

\* the words of validMathPattern after its first alternative
PatternWords ==
  { <<"s", "i", "n">>, <<"c", "o", "s">>, <<"t", "a", "n">>, <<"l", "o", "g">>,
    <<"e", "x", "p">>, <<"s", "q", "r", "t">>, <<"p", "i">>, <<"e">>,
    <<"a", "b", "s">> }

\* [\s\d\.\+\-\*\/\^\(\)x], case-insensitive
PatternFirst(c) ==
  \/ IsSpace(c)
  \/ c \in DigitChars
  \/ c \in { ".", "+", "-", "*", "/", "^", "(", ")" }
  \/ Lower(c) = "x"

\* validMathPattern.test(trimmed), trimmed not empty
validMathPattern(s) ==
  \/ PatternFirst(s[1])
  \/ \E word \in PatternWords : Contains(s, word)

\* the message of the SyntaxError math.js parse and compile throw for a
\* text, "" when it parses
SyntaxError(str) ==
  CASE str = "x +" -> "Unexpected end of expression (char 4)"
    [] str = "y +" -> "Unexpected end of expression (char 4)"
    [] str = "sin +" -> "Unexpected end of expression (char 6)"
    [] OTHER -> ""

\* the expression math.js reads in a text that parses: white space between
\* its tokens does not count
Parsed(str) ==
  CASE str = "abs (x)" -> "abs(x)"
    [] OTHER -> str

ErrEmpty == "Expression cannot be empty"
ErrNotFunctionOfX == "Invalid expression - please enter a valid function of x"
ErrNotANumber == "Expression must evaluate to a number"
ErrCannotEvaluate == "Invalid expression - cannot evaluate function"

\* Function "func" requires an argument, e.g., func(x)
ErrMissingArgument(func) ==
  "Function \"" \o func \o "\" requires an argument, e.g., " \o func \o "(x)"

\* what validateExpression returns, with what it did on the way: whether it
\* tested validMathPattern, whether it called parse, and how many times it
\* called a compiled function
Verdict(isValid, message, tested, didParse, calls) ==
  [valid |-> isValid, error |-> message, heuristic |-> tested,
   parsed |-> didParse, probes |-> calls]

\* lines 133-154: parse, then f(1) and, when that is NaN, f(2)
fullCheck(str, tested, calls) ==
  IF SyntaxError(str) # ""
  THEN Verdict(FALSE, SyntaxError(str), tested, TRUE, calls)
  ELSE IF ~IsNumber(f(Parsed(str), Num(1, 0)))
  THEN Verdict(FALSE, ErrNotANumber, tested, TRUE, calls + 1)
  ELSE IF ~isNaN(f(Parsed(str), Num(1, 0)))
  THEN Verdict(TRUE, "", tested, TRUE, calls + 1)
  ELSE IF isNaN(f(Parsed(str), Num(2, 0)))
  THEN Verdict(FALSE, ErrCannotEvaluate, tested, TRUE, calls + 2)
  ELSE Verdict(TRUE, "", tested, TRUE, calls + 2)

\* lines 110-131: a text that does not look like mathematics must compile
\* and give a number at 1
heuristicCheck(str) ==
  IF SyntaxError(str) # ""
  THEN Verdict(FALSE, ErrNotFunctionOfX, TRUE, FALSE, 0)
  ELSE IF ~IsNumber(f(Parsed(str), Num(1, 0)))
          \/ isNaN(f(Parsed(str), Num(1, 0)))
  THEN Verdict(FALSE, ErrNotFunctionOfX, TRUE, FALSE, 1)
  ELSE fullCheck(str, TRUE, 1)

\* lines 110-155
afterNames(trimmed) ==
  IF validMathPattern(trimmed)
  THEN fullCheck(Join(trimmed), TRUE, 0)
  ELSE heuristicCheck(Join(trimmed))

\* lines 99-108 with the heuristic test and the parse done first
checkNames_Last(trimmed) ==
  IF ~afterNames(trimmed).valid THEN afterNames(trimmed)
  ELSE IF \E n \in 1..Len(functionsRequiringArgs) :
            MissingArgument(trimmed, functionsRequiringArgs[n])
  THEN Verdict(FALSE,
         ErrMissingArgument(Join(functionsRequiringArgs[
           CHOOSE n \in 1..Len(functionsRequiringArgs) :
             /\ MissingArgument(trimmed, functionsRequiringArgs[n])
             /\ \A k \in 1..(n - 1) :
                  ~MissingArgument(trimmed, functionsRequiringArgs[k])])),
         TRUE, TRUE, afterNames(trimmed).probes)
  ELSE afterNames(trimmed)

\* lines 99-108: the first name of the list that lacks its argument
checkNames(trimmed) ==
  IF \E n \in 1..Len(functionsRequiringArgs) :
       MissingArgument(trimmed, functionsRequiringArgs[n])
  THEN Verdict(FALSE,
         ErrMissingArgument(Join(functionsRequiringArgs[
           CHOOSE n \in 1..Len(functionsRequiringArgs) :
             /\ MissingArgument(trimmed, functionsRequiringArgs[n])
             /\ \A k \in 1..(n - 1) :
                  ~MissingArgument(trimmed, functionsRequiringArgs[k])])),
         FALSE, FALSE, 0)
  ELSE afterNames(trimmed)

validateExpression(text) ==
  IF trim(text) = <<>>
  THEN Verdict(FALSE, ErrEmpty, FALSE, FALSE, 0)
  ELSE checkNames(trim(text))

---------------------------------------------------------------------------
(* Newton solver: utils/newton.js *)

\* the errors the solver throws, by the start of their message
NoError == "none"
ErrFunctionUndefined == "Function is undefined at x"
ErrDerivativeUndefined == "Derivative is undefined at x"
ErrNotInitialized == "Initial guess not set"
ErrZeroDerivative == "Derivative is zero at x"
ErrDiverged == "Newton's method diverged to infinity"
ErrSingularity == "Iteration landed on a singularity at x"
ErrDerivativeSingularity == "Derivative undefined at x"

\* a zero test of the derivative that is a million times coarser
ZeroDerivativeTolerance_Loose == Num(1, -6)

\* 1e-12, below which a derivative counts as zero
ZeroDerivativeTolerance == Num(1, -12)

\* 1e-10, the default tolerance of hasConverged
DefaultTolerance == Num(1, -10)

\* one step of Newton's method from x: the values returned, or the error thrown
\* newtonIteration without its check of the derivative
newtonStep_NoZeroCheck(x, fx, fPrimeX) ==
  [error |-> NoError,
   nextX |-> Sub(x, Div(fx, fPrimeX)),
   fx |-> fx,
   fPrimeX |-> fPrimeX,
   tangentSlope |-> fPrimeX,
   tangentIntercept |-> Sub(fx, Mul(fPrimeX, x))]

\* newtonIteration stepping along the tangent the wrong way
newtonStep_PlusStep(x, fx, fPrimeX) ==
  IF Less(Abs(fPrimeX), Num(1, -12))
  THEN [error |-> ErrZeroDerivative]
  ELSE [error |-> NoError,
        nextX |-> Add(x, Div(fx, fPrimeX)),
        fx |-> fx,
        fPrimeX |-> fPrimeX,
        tangentSlope |-> fPrimeX,
        tangentIntercept |-> Sub(fx, Mul(fPrimeX, x))]

newtonStep(x, fx, fPrimeX) ==
  IF Less(Abs(fPrimeX), ZeroDerivativeTolerance)
  THEN [error |-> ErrZeroDerivative]
  ELSE [error |-> NoError,
        nextX |-> Sub(x, Div(fx, fPrimeX)),
        fx |-> fx,
        fPrimeX |-> fPrimeX,
        tangentSlope |-> fPrimeX,
        tangentIntercept |-> Sub(fx, Mul(fPrimeX, x))]

newtonIteration(expr, x) == newtonStep(x, f(expr, x), fPrime(expr, x))

\* solver.setInitialGuess(x0) on a solver holding its and cx: the error thrown
\* and the history and current iterate it leaves
\* the record of the initial guess
initialRecord(x0, fx0, fPrimeX0) ==
  [n |-> 0,
   x |-> x0,
   fx |-> fx0,
   fPrimeX |-> fPrimeX0,
   tangentSlope |-> fPrimeX0,
   tangentIntercept |-> Sub(fx0, Mul(fPrimeX0, x0))]

\* setInitialGuess pushing record 0 onto the history it found
setInitialGuessAt_Appends(its, cx, x0, fx0, fPrimeX0) ==
  IF ~isFinite(fx0)
  THEN [error |-> ErrFunctionUndefined, iterations |-> its, currentX |-> cx]
  ELSE IF ~isFinite(fPrimeX0)
  THEN [error |-> ErrDerivativeUndefined, iterations |-> its, currentX |-> cx]
  ELSE [error |-> NoError,
        currentX |-> x0,
        iterations |-> Append(its, initialRecord(x0, fx0, fPrimeX0))]

\* setInitialGuess discarding the session in progress when it fails
setInitialGuessAt_ClearsOnFailure(its, cx, x0, fx0, fPrimeX0) ==
  IF ~isFinite(fx0)
  THEN [error |-> ErrFunctionUndefined, iterations |-> <<>>,
        currentX |-> Null]
  ELSE IF ~isFinite(fPrimeX0)
  THEN [error |-> ErrDerivativeUndefined, iterations |-> <<>>,
        currentX |-> Null]
  ELSE [error |-> NoError,
        currentX |-> x0,
        iterations |-> << initialRecord(x0, fx0, fPrimeX0) >>]

\* setInitialGuess checking the function value only
setInitialGuessAt_NoDerivativeCheck(its, cx, x0, fx0, fPrimeX0) ==
  IF ~isFinite(fx0)
  THEN [error |-> ErrFunctionUndefined, iterations |-> its, currentX |-> cx]
  ELSE [error |-> NoError,
        currentX |-> x0,
        iterations |-> << initialRecord(x0, fx0, fPrimeX0) >>]

setInitialGuessAt(its, cx, x0, fx0, fPrimeX0) ==
  IF ~isFinite(fx0)
  THEN [error |-> ErrFunctionUndefined, iterations |-> its, currentX |-> cx]
  ELSE IF ~isFinite(fPrimeX0)
  THEN [error |-> ErrDerivativeUndefined, iterations |-> its, currentX |-> cx]
  ELSE [error |-> NoError,
        currentX |-> x0,
        iterations |-> << initialRecord(x0, fx0, fPrimeX0) >>]

\* setInitialGuess refusing a solver that already holds a guess
setInitialGuess_OnlyOnce(expr, its, cx, x0) ==
  IF cx # Null
  THEN [error |-> "Initial guess already set",
        iterations |-> its, currentX |-> cx]
  ELSE setInitialGuessAt(its, cx, x0, f(expr, x0), fPrime(expr, x0))

setInitialGuess(expr, its, cx, x0) ==
  setInitialGuessAt(its, cx, x0, f(expr, x0), fPrime(expr, x0))

\* the record of a step holding the tangent at its own point
iterationData_OwnTangent(n, prevX, result, nextFx, nextFPrimeX) ==
  [n |-> n,
   x |-> result.nextX,
   fx |-> nextFx,
   fPrimeX |-> nextFPrimeX,
   prevX |-> prevX,
   tangentSlope |-> nextFPrimeX,
   tangentIntercept |-> Sub(nextFx, Mul(nextFPrimeX, result.nextX))]

\* solver.nextIteration() on a solver holding its and cx
\* the record nextIteration builds, numbered n and derived from prevX
iterationData(n, prevX, result, nextFx, nextFPrimeX) ==
  [n |-> n,
   x |-> result.nextX,
   fx |-> nextFx,
   fPrimeX |-> nextFPrimeX,
   prevX |-> prevX,
   tangentSlope |-> result.tangentSlope,
   tangentIntercept |-> result.tangentIntercept]

\* nextIteration assigning currentX before it checks the next point
nextIterationAt_EarlyCommit(its, cx, result, nextFx, nextFPrimeX) ==
  IF ~isFinite(nextFx)
  THEN [error |-> ErrSingularity, iterations |-> its,
        currentX |-> result.nextX]
  ELSE IF ~isFinite(nextFPrimeX)
  THEN [error |-> ErrDerivativeSingularity, iterations |-> its,
        currentX |-> result.nextX]
  ELSE [error |-> NoError,
        currentX |-> result.nextX,
        iterations |->
          Append(its, iterationData(Len(its), its[Len(its)].x, result,
                                    nextFx, nextFPrimeX))]

\* nextIteration taking prevX from the new point
nextIterationAt_PrevIsNext(its, cx, result, nextFx, nextFPrimeX) ==
  IF ~isFinite(nextFx)
  THEN [error |-> ErrSingularity, iterations |-> its, currentX |-> cx]
  ELSE IF ~isFinite(nextFPrimeX)
  THEN [error |-> ErrDerivativeSingularity, iterations |-> its, currentX |-> cx]
  ELSE [error |-> NoError,
        currentX |-> result.nextX,
        iterations |->
          Append(its, iterationData(Len(its), result.nextX, result,
                                    nextFx, nextFPrimeX))]

\* nextIteration numbering the new record after the push
nextIterationAt_OneBasedN(its, cx, result, nextFx, nextFPrimeX) ==
  IF ~isFinite(nextFx)
  THEN [error |-> ErrSingularity, iterations |-> its, currentX |-> cx]
  ELSE IF ~isFinite(nextFPrimeX)
  THEN [error |-> ErrDerivativeSingularity, iterations |-> its, currentX |-> cx]
  ELSE [error |-> NoError,
        currentX |-> result.nextX,
        iterations |->
          Append(its, iterationData(Len(its) + 1, its[Len(its)].x, result,
                                    nextFx, nextFPrimeX))]

\* nextIteration reporting every undefined next point as a singularity of
\* the function
nextIterationAt_OneMessage(its, cx, result, nextFx, nextFPrimeX) ==
  IF ~isFinite(nextFx) \/ ~isFinite(nextFPrimeX)
  THEN [error |-> ErrSingularity, iterations |-> its, currentX |-> cx]
  ELSE [error |-> NoError,
        currentX |-> result.nextX,
        iterations |->
          Append(its, iterationData(Len(its), its[Len(its)].x, result,
                                    nextFx, nextFPrimeX))]

\* nextIteration committing the next point whatever f and f' are there
nextIterationAt_NoSingularityCheck(its, cx, result, nextFx, nextFPrimeX) ==
  [error |-> NoError,
   currentX |-> result.nextX,
   iterations |->
     Append(its, iterationData(Len(its), its[Len(its)].x, result,
                               nextFx, nextFPrimeX))]

\* the part of nextIteration after the next point was evaluated
nextIterationAt(its, cx, result, nextFx, nextFPrimeX) ==
  IF ~isFinite(nextFx)
  THEN [error |-> ErrSingularity, iterations |-> its, currentX |-> cx]
  ELSE IF ~isFinite(nextFPrimeX)
  THEN [error |-> ErrDerivativeSingularity, iterations |-> its, currentX |-> cx]
  ELSE [error |-> NoError,
        currentX |-> result.nextX,
        iterations |->
          Append(its, iterationData(Len(its), its[Len(its)].x, result,
                                    nextFx, nextFPrimeX))]

\* nextIteration without its check that the next point is finite
nextIterationFrom_NoDivergenceCheck(expr, its, cx, result) ==
  IF result.error # NoError
  THEN [error |-> result.error, iterations |-> its, currentX |-> cx]
  ELSE nextIterationAt(its, cx, result,
                       f(expr, result.nextX), fPrime(expr, result.nextX))

\* the part of nextIteration after the call of newtonIteration
nextIterationFrom(expr, its, cx, result) ==
  IF result.error # NoError
  THEN [error |-> result.error, iterations |-> its, currentX |-> cx]
  ELSE IF ~isFinite(result.nextX)
  THEN [error |-> ErrDiverged, iterations |-> its, currentX |-> cx]
  ELSE nextIterationAt(its, cx, result,
                       f(expr, result.nextX), fPrime(expr, result.nextX))

\* nextIteration refusing to step once the last |fx| is below 1e-10
nextIteration_StopsWhenConverged(expr, its, cx) ==
  IF cx = Null
  THEN [error |-> ErrNotInitialized, iterations |-> its, currentX |-> cx]
  ELSE IF Len(its) >= 2 /\ Less(Abs(its[Len(its)].fx), Num(1, -10))
  THEN [error |-> "Already converged", iterations |-> its, currentX |-> cx]
  ELSE nextIterationFrom(expr, its, cx, newtonIteration(expr, cx))

\* nextIteration without its check that a guess was set
nextIteration_NoGuard(expr, its, cx) ==
  nextIterationFrom(expr, its, cx, newtonIteration(expr, cx))

nextIteration(expr, its, cx) ==
  IF cx = Null
  THEN [error |-> ErrNotInitialized, iterations |-> its, currentX |-> cx]
  ELSE nextIterationFrom(expr, its, cx, newtonIteration(expr, cx))

\* hasConverged accepting a history of one record
hasConverged_OneRecord(its, tolerance) ==
  IF Len(its) < 1 THEN FALSE
  ELSE Less(Abs(its[Len(its)].fx), tolerance)

\* solver.hasConverged(tolerance)
hasConverged(its, tolerance) ==
  IF Len(its) < 2 THEN FALSE
  ELSE Less(Abs(its[Len(its)].fx), tolerance)

\* reset clearing the history only
reset_KeepsCurrentX(its, cx) ==
  [error |-> NoError, iterations |-> <<>>, currentX |-> cx]

\* reset clearing the current iterate only
reset_KeepsHistory(its, cx) ==
  [error |-> NoError, iterations |-> its, currentX |-> Null]

\* solver.reset()
reset(its, cx) == [error |-> NoError, iterations |-> <<>>, currentX |-> Null]

\* solver.getIterations(): a new array of the records
getIterations(its) == [i \in 1..Len(its) |-> its[i]]

\* a <= b on numbers; false when either is NaN
LessEq(a, b) == ~isNaN(a) /\ ~isNaN(b) /\ ~Less(b, a)

\* Math.max and Math.min: NaN when either argument is
Max(a, b) == IF isNaN(a) \/ isNaN(b) THEN NaN ELSE IF Less(a, b) THEN b ELSE a
Min(a, b) == IF isNaN(a) \/ isNaN(b) THEN NaN ELSE IF Less(b, a) THEN b ELSE a

RECURSIVE Pow2(_)
Pow2(n) == IF n <= 0 THEN 1 ELSE 2 * Pow2(n - 1)

\* y * y / 10^5 for a y of six digits, a = y \div 1000 and b = y % 1000
SquareOf(a, b) ==
  a * a * 10 + (2 * a * b) \div 100 + (b * b) \div 100000

RECURSIVE LogBits(_, _)
LogBitsFrom(sq, k) ==
  IF sq >= 1000000
  THEN Pow2(k - 1) + LogBits(sq \div 10, k - 1)
  ELSE LogBits(sq, k - 1)

\* the first k binary digits of log10(y / 10^5), for 10^5 <= y < 10^6
LogBits(y, k) ==
  IF k = 0 THEN 0 ELSE LogBitsFrom(SquareOf(y \div 1000, y % 1000), k)

\* log10 of m * 10^e for m > 0 of nd digits, to six decimals
LogOf(m, e, nd) ==
  Num((e + nd - 1) * 1000000
        + (LogBits(m * Pow10(6 - nd), 17) * 15625) \div 2048,
      -6)

\* Math.log10
Log10(x) ==
  IF isNaN(x) THEN NaN
  ELSE IF x = Infinity THEN Infinity
  ELSE IF x = NegInfinity THEN NaN
  ELSE IF x.m = 0 THEN NegInfinity
  ELSE IF x.m < 0 THEN NaN
  ELSE LogOf(x.m, x.e, NumDigits(x.m))

\* lines 597-603 of getConvergenceProgress, from the three logarithms
progressOf(logInitial, logCurrent, logTarget) ==
  Min(Num(1, 0),
      Max(Zero, Div(Sub(logInitial, logCurrent), Sub(logInitial, logTarget))))

\* lines 589-603, from current = |currentFx| and initial = |initialFx|
progressFrom(current, initial, target) ==
  IF LessEq(initial, target) \/ LessEq(current, Zero) THEN Num(1, 0)
  ELSE IF LessEq(initial, current) THEN Zero
  ELSE progressOf(Log10(initial), Log10(Max(current, target)), Log10(target))

getConvergenceProgress(currentFx, initialFx, targetFx) ==
  progressFrom(Abs(currentFx), Abs(initialFx), targetFx)

---------------------------------------------------------------------------
(* The solver driven through its interface *)

\* initial guesses a caller passes
Guesses ==
  { Num(0, 0), Num(1, 0), Num(2, 0), Num(3, 0), Num(5, -1), Num(-1, 0),
    Num(1, 6), Infinity, NaN }

\* tolerances a caller passes to hasConverged
Tolerances == { DefaultTolerance, Num(1, -1), Num(1, 0), Zero, NaN, Infinity }

\* no second solver has been constructed
NoSolver == [expression |-> "", iterations |-> <<>>, currentX |-> Null]

\* the solver is used without the application
NoApp == [held |-> FALSE]

\* getConvergenceProgress has not been called
NoProgress == [result |-> Null]

\* validateExpression has not been called
NotValidated == [text |-> <<>>, result |-> [valid |-> TRUE]]

\* the closure createNewtonSolver sets up, and nothing else done yet
Constructed ==
  /\ iterations = <<>>
  /\ currentX = Null
  /\ lastOp = "createNewtonSolver"
  /\ lastArg = Null
  /\ error = NoError
  /\ before = [iterations |-> <<>>, currentX |-> Null, error |-> NoError]
  /\ guessSet = FALSE
  /\ value = Null
  /\ validation = NotValidated
  /\ returned = <<>>
  /\ solverB = NoSolver
  /\ lastInst = "A"
  /\ app = NoApp
  /\ progress = NoProgress

\* the solver createNewtonSolver(expression) returns
Init ==
  /\ expression \in Expressions
  /\ Constructed

\* the call returned or threw: r holds what it left in the solver
Outcome(r) ==
  /\ iterations' = r.iterations
  /\ currentX' = r.currentX
  /\ error' = r.error
  /\ before' = [iterations |-> iterations, currentX |-> currentX,
                error |-> error]

\* a call of solver.setInitialGuess(x0), as far as the solver's closure goes
SetInitialGuessCall(x0) ==
  /\ Outcome(setInitialGuess(expression, iterations, currentX, x0))
  /\ lastOp' = "setInitialGuess"
  /\ lastArg' = x0
  /\ guessSet' = (guessSet \/ error' = NoError)
  /\ UNCHANGED expression

SetInitialGuess(x0) ==
  /\ SetInitialGuessCall(x0)
  /\ UNCHANGED others

\* a call of solver.nextIteration(), as far as the solver's closure goes
StepCall ==
  /\ Outcome(nextIteration(expression, iterations, currentX))
  /\ lastOp' = "nextIteration"
  /\ lastArg' = Null
  /\ UNCHANGED <<expression, guessSet>>

Step ==
  /\ StepCall
  /\ UNCHANGED others

NextIteration ==
  /\ Len(iterations) < MaxIter
  /\ Step

\* a call of solver.reset(), as far as the solver's closure goes
ResetCall ==
  /\ Outcome(reset(iterations, currentX))
  /\ lastOp' = "reset"
  /\ lastArg' = Null
  /\ guessSet' = FALSE
  /\ UNCHANGED expression

Reset ==
  /\ ResetCall
  /\ UNCHANGED others

Next ==
  \/ \E x0 \in Guesses : SetInitialGuess(x0)
  \/ NextIteration
  \/ Reset

Spec == Init /\ [][Next]_vars

---------------------------------------------------------------------------
(* The expression engine used on its own *)

\* texts a caller gives to validateExpression
Texts ==
  { <<>>,
    <<" ", " ", " ">>,
    <<"s", "i", "n">>,
    <<"S", "I", "N">>,
    <<"s", "i", "n", " ", "+">>,
    <<"f", "l", "o", "o", "r">>,
    <<"c", "o", "s", " ", "+", " ", "s", "i", "n">>,
    <<"a", "b", "s", " ", "(", "x", ")">>,
    <<" ", "a", "b", "s", "(", "x", ")", " ">>,
    <<"x", "^", "2", " ", "-", " ", "2">>,
    <<"q", "w", "e", "r", "t", "y">>,
    <<"y">>,
    <<"x", " ", "+">>,
    <<"y", " ", "+">>,
    <<"s", "q", "r", "t", "(", "x", " ", "-", " ", "2", ")">>,
    <<"s", "q", "r", "t", "(", "x", ")">>,
    <<"0", "/", "(", "x", " ", "-", " ", "1", ")">>,
    <<"x", " ", "+", " ", "y">>,
    <<"5">> }

\* real numbers a caller gives to a compiled function
EvalPoints ==
  { Num(0, 0), Num(1, 0), Num(2, 0), Num(4, 0), Num(5, -1), Num(-1, 0),
    Num(-4, 0), Num(1, 6) }

\* createFunction(expression) has returned a function
InitEngine ==
  /\ expression \in EngineExpressions
  /\ Constructed

\* a call f(x) of the function createFunction returned
Evaluate(x) ==
  /\ value' = f(expression, x)
  /\ lastOp' = "evaluate"
  /\ lastArg' = x
  /\ UNCHANGED <<expression, iterations, currentX, error, before, guessSet,
                 validation, returned, solverB, lastInst,
                 app, progress>>

\* a call validateExpression(text)
Validate(text) ==
  /\ validation' = [text |-> text, result |-> validateExpression(text)]
  /\ lastOp' = "validateExpression"
  /\ lastArg' = Null
  /\ UNCHANGED <<expression, iterations, currentX, error, before, guessSet,
                 value, returned, solverB, lastInst,
                 app, progress>>

NextEngine ==
  \/ \E x \in EvalPoints : Evaluate(x)
  \/ \E text \in Texts : Validate(text)

SpecEngine == InitEngine /\ [][NextEngine]_vars

---------------------------------------------------------------------------
(* One solver and a caller that keeps what getIterations() returned *)

\* return [...iterations]: a new array of the same record objects. An element
\* is the record with the position the solver's array holds that object at,
\* 0 once the solver holds it no longer
spreadOf(its) == [i \in 1..Len(its) |-> [alias |-> i, rec |-> its[i]]]

\* iterations = [...]: the solver's array is replaced, the caller's elements
\* are objects of their own from then on
Dropped(arr) == [j \in 1..Len(arr) |-> [alias |-> 0, rec |-> arr[j].rec]]

\* the value a caller writes into a field of a record
Written == { Zero }

\* guesses of the caller that keeps the array
AliasGuesses == { Num(3, 0), NaN }

InitAlias ==
  /\ expression = "x^2 - 2"
  /\ Constructed

SetInitialGuessHeld(x0) ==
  /\ SetInitialGuessCall(x0)
  /\ returned' = IF error' = NoError THEN Dropped(returned) ELSE returned
  /\ UNCHANGED <<value, validation, solverB, lastInst,
                 app, progress>>

\* iterations.push(iterationData) leaves the earlier objects in place
NextIterationHeld ==
  /\ Len(iterations) < MaxIter
  /\ StepCall
  /\ UNCHANGED others

ResetHeld ==
  /\ ResetCall
  /\ returned' = Dropped(returned)
  /\ UNCHANGED <<value, validation, solverB, lastInst,
                 app, progress>>

\* const held = solver.getIterations()
GetIterations ==
  /\ returned' = spreadOf(iterations)
  /\ lastOp' = "getIterations"
  /\ lastArg' = Null
  /\ UNCHANGED <<expression, iterations, currentX, error, before, guessSet,
                 value, validation, solverB, lastInst,
                 app, progress>>

\* held.pop(): a change to the returned array
CallerPop ==
  /\ returned # <<>>
  /\ returned' = SubSeq(returned, 1, Len(returned) - 1)
  /\ lastOp' = "caller"
  /\ lastArg' = Null
  /\ UNCHANGED <<expression, iterations, currentX, error, before, guessSet,
                 value, validation, solverB, lastInst,
                 app, progress>>

\* the solver's array after a write to the object at position i of it
WrittenThrough(its, i, v) ==
  IF i = 0 THEN its ELSE [its EXCEPT ![i].fx = v]

\* held[j].fx = v: a change to a record of the returned array
CallerWrite(j, v) ==
  /\ j \in 1..Len(returned)
  /\ returned' = [returned EXCEPT ![j].rec.fx = v]
  /\ iterations' = WrittenThrough(iterations, returned[j].alias, v)
  /\ lastOp' = "caller"
  /\ lastArg' = Null
  /\ UNCHANGED <<expression, currentX, error, before, guessSet,
                 value, validation, solverB, lastInst,
                 app, progress>>

NextAlias ==
  \/ \E x0 \in AliasGuesses : SetInitialGuessHeld(x0)
  \/ NextIterationHeld
  \/ ResetHeld
  \/ GetIterations
  \/ CallerPop
  \/ \E j \in 1..MaxIter, v \in Written : CallerWrite(j, v)

SpecAlias == InitAlias /\ [][NextAlias]_vars

---------------------------------------------------------------------------
(* Two solvers, their methods called in any order *)

\* both solvers' methods use the variables of one closure
closureOf_Shared(inst) == "A"

\* let iterations = [], let currentX = null are local to the call of
\* createNewtonSolver: the methods of a solver use the closure of their own
closureOf(inst) == inst

\* what a closure holds
heldBy(c) ==
  IF c = "A"
  THEN [expression |-> expression, iterations |-> iterations,
        currentX |-> currentX]
  ELSE solverB

Methods == { "setInitialGuess", "nextIteration", "reset" }

\* the method run on what a closure holds
resultOf(method, st, x0) ==
  CASE method = "setInitialGuess" ->
         setInitialGuess(st.expression, st.iterations, st.currentX, x0)
    [] method = "nextIteration" ->
         nextIteration(st.expression, st.iterations, st.currentX)
    [] method = "reset" -> reset(st.iterations, st.currentX)

\* the method's assignments, made to the closure c
Stored(c, r) ==
  /\ error' = r.error
  /\ before' = [iterations |-> iterations, currentX |-> currentX,
                error |-> error]
  /\ IF c = "A"
     THEN /\ iterations' = r.iterations
          /\ currentX' = r.currentX
          /\ UNCHANGED solverB
     ELSE /\ solverB' = [solverB EXCEPT !.iterations = r.iterations,
                                        !.currentX = r.currentX]
          /\ UNCHANGED <<iterations, currentX>>

\* a call of a method of the solver inst
Call(inst, method, x0) ==
  /\ inst = "B" => solverB # NoSolver
  /\ Stored(closureOf(inst), resultOf(method, heldBy(closureOf(inst)), x0))
  /\ lastInst' = inst
  /\ lastOp' = method
  /\ lastArg' = x0
  /\ UNCHANGED <<expression, guessSet, value, validation, returned,
                 app, progress>>

\* guesses given to either solver
TwoGuesses == { Num(3, 0), Num(1, 0), NaN }

\* expressions of the second solver
TwoExpressions == { "x^2 - 4", "1/x" }

InitTwo ==
  /\ expression = "x^2 - 2"
  /\ Constructed

\* a second call of createNewtonSolver
Construct(expr) ==
  /\ solverB = NoSolver
  /\ solverB' = [expression |-> expr, iterations |-> <<>>, currentX |-> Null]
  /\ lastInst' = "B"
  /\ lastOp' = "createNewtonSolver"
  /\ lastArg' = Null
  /\ UNCHANGED <<expression, iterations, currentX, error, before, guessSet,
                 value, validation, returned,
                 app, progress>>

Solvers == { "A", "B" }

SetInitialGuessOn(inst, x0) ==
  /\ inst \in Solvers
  /\ Call(inst, "setInitialGuess", x0)

NextIterationOn(inst) ==
  /\ Len(heldBy(closureOf(inst)).iterations) < MaxIter
  /\ Call(inst, "nextIteration", Null)

ResetOn(inst) ==
  /\ inst \in Solvers
  /\ Call(inst, "reset", Null)

NextTwo ==
  \/ \E expr \in TwoExpressions : Construct(expr)
  \/ \E inst \in Solvers, x0 \in TwoGuesses : SetInitialGuessOn(inst, x0)
  \/ \E inst \in Solvers : NextIterationOn(inst)
  \/ \E inst \in Solvers : ResetOn(inst)

SpecTwo == InitTwo /\ [][NextTwo]_vars

---------------------------------------------------------------------------
(* getConvergenceProgress called on values of |f(x)| *)

\* values of f at an iterate
ProgressValues ==
  { Zero, Num(5, -11), Num(1, -10), Num(101, -12), Num(1, -5), Num(5, -1),
    Num(7, 0), Num(-7, 0) }

\* values of f at the initial guess
ProgressInitials == { Num(5, -11), Num(101, -12), Num(1, -5), Num(-7, 0) }

\* targets: the default 1e-10 and a coarser one
ProgressTargets == { DefaultTolerance, Num(1, -5) }

\* a call getConvergenceProgress(currentFx, initialFx, targetFx); the call
\* before it is kept beside it
GetConvergenceProgress(currentFx, initialFx, targetFx) ==
  /\ progress' =
       [current |-> currentFx, initial |-> initialFx, target |-> targetFx,
        result |-> getConvergenceProgress(currentFx, initialFx, targetFx),
        last |-> [current |-> IF progress = NoProgress THEN Null
                              ELSE progress.current,
                  initial |-> IF progress = NoProgress THEN Null
                              ELSE progress.initial,
                  target |-> IF progress = NoProgress THEN Null
                             ELSE progress.target,
                  result |-> progress.result]]
  /\ lastOp' = "getConvergenceProgress"
  /\ lastArg' = currentFx
  /\ UNCHANGED <<expression, iterations, currentX, error, before, guessSet,
                 value, validation, returned, solverB, lastInst, app>>

InitProgress ==
  /\ expression = "x^2 - 2"
  /\ Constructed

NextProgress ==
  \E currentFx \in ProgressValues, initialFx \in ProgressInitials,
     targetFx \in ProgressTargets :
    GetConvergenceProgress(currentFx, initialFx, targetFx)

SpecProgress == InitProgress /\ [][NextProgress]_vars

---------------------------------------------------------------------------
(* The application: App and its Controls, src/App.jsx *)

\* the state of App before any handler ran; held says solverRef.current is
\* a solver, whose closure the variables expression, iterations and currentX
\* are; guessCalls counts the setInitialGuess calls that solver received;
\* inputError is the error state of Controls
AppStarted ==
  [held |-> FALSE, functionExpression |-> "", shown |-> <<>>,
   visibleIterations |-> {}, isActive |-> FALSE, hasConverged |-> FALSE,
   selectedElement |-> "none", error |-> "", initialGuess |-> Num(3, 0),
   guessCalls |-> 0, inputError |-> FALSE]

\* solverRef.current = null
NoneHeld == [expression |-> "", iterations |-> <<>>, currentX |-> Null]

\* the message of an error the solver threw
messageOf(err) == err

\* handleGraphFunction re-initializing the solver in use when there is one
graphFunctionWith_ReusesSolver(a, sv, expr, guess, r) ==
  IF a.held /\ setInitialGuess(sv.expression, sv.iterations, sv.currentX,
                               guess).error = NoError
  THEN [thrown |-> NoError,
        app |-> [a EXCEPT !.error = "", !.selectedElement = "none",
                          !.functionExpression = expr,
                          !.initialGuess = guess,
                          !.shown = getIterations(
                             setInitialGuess(sv.expression, sv.iterations,
                                             sv.currentX, guess).iterations),
                          !.visibleIterations = {0}, !.isActive = TRUE,
                          !.hasConverged = FALSE,
                          !.guessCalls = a.guessCalls + 1],
        solver |-> [expression |-> sv.expression,
                    iterations |->
                      setInitialGuess(sv.expression, sv.iterations,
                                      sv.currentX, guess).iterations,
                    currentX |-> guess]]
  ELSE IF r.error # NoError
  THEN [thrown |-> r.error,
        app |-> [a EXCEPT !.error = messageOf(r.error),
                          !.selectedElement = "none"],
        solver |-> sv]
  ELSE [thrown |-> NoError,
        app |-> [a EXCEPT !.error = "", !.selectedElement = "none",
                          !.held = TRUE, !.functionExpression = expr,
                          !.initialGuess = guess,
                          !.shown = getIterations(r.iterations),
                          !.visibleIterations = {0}, !.isActive = TRUE,
                          !.hasConverged = FALSE, !.guessCalls = 1],
        solver |-> [expression |-> expr, iterations |-> r.iterations,
                    currentX |-> r.currentX]]

\* handleGraphFunction, r being what solver.setInitialGuess(guess) did on the
\* solver just constructed
graphFunctionWith(a, sv, expr, guess, r) ==
  IF r.error # NoError
  THEN [thrown |-> r.error,
        app |-> [a EXCEPT !.error = messageOf(r.error),
                          !.selectedElement = "none"],
        solver |-> sv]
  ELSE [thrown |-> NoError,
        app |-> [a EXCEPT !.error = "", !.selectedElement = "none",
                          !.held = TRUE, !.functionExpression = expr,
                          !.initialGuess = guess,
                          !.shown = getIterations(r.iterations),
                          !.visibleIterations = {0}, !.isActive = TRUE,
                          !.hasConverged = FALSE, !.guessCalls = 1],
        solver |-> [expression |-> expr, iterations |-> r.iterations,
                    currentX |-> r.currentX]]

\* App.handleGraphFunction(expression, latex, guess)
handleGraphFunction(a, sv, expr, guess) ==
  graphFunctionWith(a, sv, expr, guess,
                    setInitialGuess(expr, <<>>, Null, guess))

\* handleNextIteration, r being what solverRef.current.nextIteration() did
nextIterationWith(a, sv, r) ==
  IF r.error # NoError
  THEN [thrown |-> r.error,
        app |-> [a EXCEPT !.error = messageOf(r.error)],
        solver |-> sv]
  ELSE [thrown |-> NoError,
        app |-> [a EXCEPT !.error = "",
                          !.shown = getIterations(r.iterations),
                          !.visibleIterations =
                             a.visibleIterations
                               \cup {Len(r.iterations) - 1},
                          !.hasConverged =
                             (a.hasConverged
                              \/ hasConverged(r.iterations,
                                              DefaultTolerance))],
        solver |-> [sv EXCEPT !.iterations = r.iterations,
                              !.currentX = r.currentX]]

\* handleNextIteration without its setIterations(solver.getIterations())
handleNextIteration_KeepsList(a, sv) ==
  IF ~a.held THEN [thrown |-> NoError, app |-> a, solver |-> sv]
  ELSE [nextIterationWith(a, sv,
          nextIteration(sv.expression, sv.iterations, sv.currentX))
        EXCEPT !.app.shown = a.shown]

\* App.handleNextIteration()
handleNextIteration(a, sv) ==
  IF ~a.held THEN [thrown |-> NoError, app |-> a, solver |-> sv]
  ELSE nextIterationWith(a, sv,
         nextIteration(sv.expression, sv.iterations, sv.currentX))

\* App.handleReset()
handleReset(a, sv) ==
  [thrown |-> NoError,
   app |-> [a EXCEPT !.held = FALSE, !.functionExpression = "",
                     !.shown = <<>>, !.visibleIterations = {},
                     !.isActive = FALSE, !.hasConverged = FALSE,
                     !.selectedElement = "none", !.error = "",
                     !.guessCalls = 0],
   solver |-> NoneHeld]

\* the Next Iteration button enabled whether or not the flag is set
nextDisabled_IgnoresConverged(a) == ~a.isActive \/ a.inputError

\* disabled={!isActive || hasConverged || !!error} of the Next Iteration button
nextDisabled(a) == ~a.isActive \/ a.hasConverged \/ a.inputError

\* the texts in the expression field when Graph Function is pressed
AppTexts ==
  { <<"x", "^", "2", " ", "-", " ", "4">>,
    <<"1", "/", "x">>,
    <<"s", "i", "n">> }

\* parseFloat(initialGuess) of what the guess field holds, NaN for no number
AppGuesses == { Num(2, 0), Num(3, 0), Num(0, 0), NaN }

InitApp ==
  /\ expression = ""
  /\ iterations = <<>>
  /\ currentX = Null
  /\ lastOp = "App"
  /\ lastArg = Null
  /\ error = NoError
  /\ before = [iterations |-> <<>>, currentX |-> Null, error |-> NoError]
  /\ guessSet = FALSE
  /\ value = Null
  /\ validation = NotValidated
  /\ returned = <<>>
  /\ solverB = NoSolver
  /\ lastInst = "A"
  /\ app = AppStarted
  /\ progress = NoProgress

\* the solver solverRef.current refers to
heldSolver ==
  [expression |-> expression, iterations |-> iterations,
   currentX |-> currentX]

\* a handler of App has run: o holds what it left
Handled(o, name, arg) ==
  /\ app' = o.app
  /\ expression' = o.solver.expression
  /\ iterations' = o.solver.iterations
  /\ currentX' = o.solver.currentX
  /\ error' = o.thrown
  /\ before' = [iterations |-> iterations, currentX |-> currentX,
                error |-> error]
  /\ lastOp' = name
  /\ lastArg' = arg
  /\ UNCHANGED <<guessSet, value, validation, returned, solverB, lastInst,
                 progress>>

\* Controls sets its own error and calls nothing
Refused ==
  /\ app' = [app EXCEPT !.inputError = TRUE]
  /\ lastOp' = "Controls"
  /\ lastArg' = Null
  /\ UNCHANGED <<expression, iterations, currentX, error, before, guessSet,
                 value, validation, returned, solverB, lastInst, progress>>

\* Graph Function pressed: Controls.handleGraphFunction, lines 736-755
ClickGraphFunction(text, guess) ==
  /\ ~app.inputError
  /\ IF ~validateExpression(text).valid \/ isNaN(guess)
     THEN Refused
     ELSE Handled(handleGraphFunction(app, heldSolver, Join(text), guess),
                  "handleGraphFunction", guess)

\* the expression field edited to a text that converts: setError('')
EditExpression ==
  /\ app.inputError
  /\ app' = [app EXCEPT !.inputError = FALSE]
  /\ lastOp' = "Controls"
  /\ lastArg' = Null
  /\ UNCHANGED <<expression, iterations, currentX, error, before, guessSet,
                 value, validation, returned, solverB, lastInst, progress>>

\* Next Iteration pressed
ClickNextIteration ==
  /\ ~nextDisabled(app)
  /\ Len(iterations) < MaxIter
  /\ Handled(handleNextIteration(app, heldSolver), "handleNextIteration",
             Null)

\* Reset pressed, disabled={!isActive}
ClickReset ==
  /\ app.isActive
  /\ Handled(handleReset(app, heldSolver), "handleReset", Null)

\* a point or line of the graph clicked: handleElementClick
ClickElement ==
  /\ app.shown # <<>>
  /\ app.selectedElement = "none"
  /\ app' = [app EXCEPT !.selectedElement = "point"]
  /\ lastOp' = "handleElementClick"
  /\ lastArg' = Null
  /\ UNCHANGED <<expression, iterations, currentX, error, before, guessSet,
                 value, validation, returned, solverB, lastInst, progress>>

NextApp ==
  \/ \E text \in AppTexts, guess \in AppGuesses :
       ClickGraphFunction(text, guess)
  \/ EditExpression
  \/ ClickNextIteration
  \/ ClickReset
  \/ ClickElement

SpecApp == InitApp /\ [][NextApp]_vars

---------------------------------------------------------------------------
(* One solver, for 1/x, stepped far *)

InitLong ==
  /\ Init
  /\ expression = "1/x"

NextIterationLong ==
  /\ Len(iterations) < MaxLongIter
  /\ Step

NextLong ==
  \/ \E x0 \in Guesses : SetInitialGuess(x0)
  \/ NextIterationLong
  \/ Reset

SpecLong == InitLong /\ [][NextLong]_vars

---------------------------------------------------------------------------
(* Properties *)

Last(its) == its[Len(its)]

\* solver.hasConverged() with no tolerance given
hasConvergedDefault(its) == hasConverged(its, DefaultTolerance)

\* C1: a nextIteration() that throws leaves the history and currentX as they
\* were; one that returns has appended exactly one record and moved currentX
\* to it.  Nothing in between is ever left behind.
C1_FailedStepIsAtomic ==
  [][lastOp' = "nextIteration" =>
       IF error' # NoError
       THEN iterations' = iterations /\ currentX' = currentX
       ELSE /\ Len(iterations') = Len(iterations) + 1
            /\ SubSeq(iterations', 1, Len(iterations)) = iterations
            /\ currentX' = Last(iterations').x]_vars

\* a step from an active solver failed late, after the next point was computed
C1_Witness ==
  /\ lastOp = "nextIteration"
  /\ error = ErrSingularity
  /\ Len(before.iterations) >= 1
  /\ iterations = before.iterations
  /\ currentX = before.currentX

\* C2 (as claimed): every record of the history holds the tangent at its own
\* point: tangentSlope is its fPrimeX and tangentIntercept its fx - fPrimeX*x.
C2_TangentAtOwnPoint ==
  \A i \in 1..Len(iterations) :
    /\ iterations[i].tangentSlope = iterations[i].fPrimeX
    /\ iterations[i].tangentIntercept =
         Sub(iterations[i].fx, Mul(iterations[i].fPrimeX, iterations[i].x))

\* C3: a setInitialGuess(x0) with f(x0) and f'(x0) finite returns and leaves a
\* history of exactly one record, numbered 0 and placed at x0, whatever the
\* history held before.
C3_GuessStartsFreshHistory ==
  [][(/\ lastOp' = "setInitialGuess"
      /\ isFinite(f(expression, lastArg'))
      /\ isFinite(fPrime(expression, lastArg')))
     => /\ error' = NoError
        /\ Len(iterations') = 1
        /\ iterations'[1].n = 0
        /\ iterations'[1].x = lastArg']_vars

\* a guess was set on a solver that held several records of an earlier session
C3_Witness ==
  /\ lastOp = "setInitialGuess"
  /\ error = NoError
  /\ Len(before.iterations) >= 2
  /\ Len(iterations) = 1
  /\ iterations[1].x = lastArg
  /\ iterations[1].x # before.iterations[1].x

\* C4: a nextIteration() that returns has appended one record at the end of
\* the history; its n is the length of the history before the call and its
\* prevX the x of the record that was last before the call.
C4_StepAppendsOneRecord ==
  [][(lastOp' = "nextIteration" /\ error' = NoError)
     => /\ Len(iterations) >= 1
        /\ iterations' = Append(iterations, Last(iterations'))
        /\ Last(iterations').n = Len(iterations)
        /\ Last(iterations').prevX = Last(iterations).x]_vars

\* a third record was appended, away from the point it was derived from
C4_Witness ==
  /\ lastOp = "nextIteration"
  /\ error = NoError
  /\ Len(iterations) >= 3
  /\ Last(iterations).n = Len(before.iterations)
  /\ Last(iterations).prevX = Last(before.iterations).x
  /\ Last(iterations).prevX # Last(iterations).x

\* C5: hasConverged(tolerance) is false on a history of fewer than 2 records
\* for every tolerance; on a longer one it is true exactly when |fx| of the
\* last record is strictly below the tolerance, 1e-10 when none is given.
C5_HasConverged ==
  /\ \A tol \in Tolerances :
       /\ Len(iterations) < 2 => hasConverged(iterations, tol) = FALSE
       /\ Len(iterations) >= 2 =>
            hasConverged(iterations, tol)
              = Less(Abs(Last(iterations).fx), tol)
  /\ hasConvergedDefault(iterations)
       = (Len(iterations) >= 2
          /\ Less(Abs(Last(iterations).fx), Num(1, -10)))

\* a step reached a root: converged at 1e-10, and not at a tolerance of zero
C5_Witness ==
  /\ Len(iterations) >= 2
  /\ hasConvergedDefault(iterations)
  /\ ~hasConverged(iterations, Zero)
  /\ ~hasConvergedDefault(before.iterations)

\* C6: currentX is unset exactly when the history is empty, and otherwise is
\* the x of the last record.
C6_CurrentXIsLastX ==
  /\ currentX = Null <=> iterations = <<>>
  /\ iterations # <<>> => currentX = Last(iterations).x

\* a step has moved the current iterate
C6_Witness ==
  /\ lastOp = "nextIteration"
  /\ error = NoError
  /\ Len(iterations) >= 2
  /\ currentX = Last(iterations).x
  /\ currentX # before.currentX

\* C7: while only nextIteration() is called the history is append-only:
\* records present stay as they are, every record's n is its index, and
\* record 0 is the guess that setInitialGuess was given.
C7_AppendOnly ==
  [][/\ lastOp' = "nextIteration" =>
          /\ Len(iterations') >= Len(iterations)
          /\ SubSeq(iterations', 1, Len(iterations)) = iterations
     /\ \A i \in 1..Len(iterations') : iterations'[i].n = i - 1
     /\ (lastOp' = "setInitialGuess" /\ error' = NoError) =>
          iterations'[1].x = lastArg'
     /\ (lastOp' = "nextIteration" /\ iterations # <<>>) =>
          iterations'[1] = iterations[1]]_vars

\* a history of four records grown step by step
C7_Witness ==
  /\ lastOp = "nextIteration"
  /\ error = NoError
  /\ Len(iterations) >= 4
  /\ SubSeq(iterations, 1, Len(iterations) - 1) = before.iterations
  /\ \A i \in 1..Len(iterations) : iterations[i].n = i - 1

\* C8: a nextIteration() on a solver whose derivative at currentX is below
\* 1e-12 in magnitude throws the zero-derivative error, and setInitialGuess
\* does not: a guess at a stationary point with f and f' finite is accepted.
C8_ZeroDerivativeAtStep ==
  [][/\ (/\ lastOp' = "nextIteration"
         /\ currentX # Null
         /\ Less(Abs(fPrime(expression, currentX)), ZeroDerivativeTolerance))
        => error' = ErrZeroDerivative
     /\ (/\ lastOp' = "setInitialGuess"
         /\ isFinite(f(expression, lastArg'))
         /\ Less(Abs(fPrime(expression, lastArg')), ZeroDerivativeTolerance))
        => /\ error' = NoError
           /\ Last(iterations').x = lastArg']_vars

\* x^2 with the guess 0: record 0 stands and the first step has failed
C8_Witness ==
  /\ expression = "x^2"
  /\ Len(iterations) = 1
  /\ iterations[1].x = Zero
  /\ iterations[1].fPrimeX = Zero
  /\ lastOp = "nextIteration"
  /\ error = ErrZeroDerivative

\* C9: a nextIteration() on a solver on which no setInitialGuess has succeeded
\* since it was constructed or last reset throws the not-initialized error.
C9_StepBeforeGuess ==
  [][(lastOp' = "nextIteration" /\ ~guessSet)
     => error' = ErrNotInitialized]_vars

\* a step was tried on a solver without a guess
C9_Witness ==
  /\ lastOp = "nextIteration"
  /\ ~guessSet
  /\ error = ErrNotInitialized
  /\ iterations = <<>>

\* C10: a setInitialGuess(x0) throws whenever f(x0) or f'(x0) is not finite:
\* the function-undefined error when f(x0) is not finite, the
\* derivative-undefined error when only f'(x0) is not.
C10_DomainErrorAtGuess ==
  [][lastOp' = "setInitialGuess" =>
       /\ ~isFinite(f(expression, lastArg')) =>
            error' = ErrFunctionUndefined
       /\ (/\ isFinite(f(expression, lastArg'))
           /\ ~isFinite(fPrime(expression, lastArg'))) =>
            error' = ErrDerivativeUndefined
       /\ ErrFunctionUndefined # ErrDerivativeUndefined]_vars

\* a guess where the function is defined and the derivative is not
C10_Witness ==
  /\ lastOp = "setInitialGuess"
  /\ error = ErrDerivativeUndefined
  /\ isFinite(f(expression, lastArg))
  /\ ~isFinite(fPrime(expression, lastArg))

\* the next iterate newtonIteration computes from x
NewtonNext(expr, x) == Sub(x, Div(f(expr, x), fPrime(expr, x)))

\* C11: a nextIteration() at a current iterate whose derivative is not below
\* 1e-12 in magnitude and whose next iterate x - fx/fPrimeX is not finite
\* throws the divergence error.
C11_DivergenceError ==
  [][(/\ lastOp' = "nextIteration"
      /\ currentX # Null
      /\ ~Less(Abs(fPrime(expression, currentX)), Num(1, -12))
      /\ ~isFinite(NewtonNext(expression, currentX)))
     => error' = ErrDiverged]_vars

\* a step from a finite iterate with a nonzero finite derivative overflowed
C11_Witness ==
  /\ lastOp = "nextIteration"
  /\ error = ErrDiverged
  /\ isFinite(currentX)
  /\ isFinite(fPrime(expression, currentX))
  /\ ~Less(Abs(fPrime(expression, currentX)), Num(1, -12))
  /\ ~isFinite(NewtonNext(expression, currentX))

\* C12: a nextIteration() whose next iterate is finite throws the
\* singularity error of the function when f is not finite there, and the
\* error of the derivative when f is finite there and f' is not; the two
\* errors differ.
C12_SingularityAtIterate ==
  [][(/\ lastOp' = "nextIteration"
      /\ currentX # Null
      /\ ~Less(Abs(fPrime(expression, currentX)), Num(1, -12))
      /\ isFinite(NewtonNext(expression, currentX)))
     => /\ ~isFinite(f(expression, NewtonNext(expression, currentX)))
             => error' = ErrSingularity
        /\ (/\ isFinite(f(expression, NewtonNext(expression, currentX)))
            /\ ~isFinite(fPrime(expression, NewtonNext(expression, currentX))))
             => error' = ErrDerivativeSingularity
        /\ ErrSingularity # ErrDerivativeSingularity]_vars

\* a step landed on a point where the function is defined and the derivative
\* is not
C12_Witness ==
  /\ lastOp = "nextIteration"
  /\ error = ErrDerivativeSingularity
  /\ isFinite(NewtonNext(expression, currentX))
  /\ isFinite(f(expression, NewtonNext(expression, currentX)))
  /\ ~isFinite(fPrime(expression, NewtonNext(expression, currentX)))

\* C13: reset() returns from every state and leaves the history empty and
\* currentX unset; getIterations() is then empty and hasConverged() false.
C13_ResetClears ==
  [][lastOp' = "reset" =>
       /\ error' = NoError
       /\ iterations' = <<>>
       /\ currentX' = Null
       /\ getIterations(iterations') = <<>>
       /\ \A tol \in Tolerances : ~hasConverged(iterations', tol)]_vars

\* a reset of a solver that had converged
C13_Witness ==
  /\ lastOp = "reset"
  /\ Len(before.iterations) >= 2
  /\ hasConvergedDefault(before.iterations)
  /\ iterations = <<>>
  /\ currentX = Null

\* C15: every record after the first lies at p - f(p)/f'(p) for the x = p of
\* the record before it, every record holds f and f' at its own x, and for
\* x^2 - 2 from the guess 3 the first step lands on 3 - 7/6.
C15_NewtonStep ==
  /\ \A i \in 1..Len(iterations) :
       /\ iterations[i].fx = f(expression, iterations[i].x)
       /\ iterations[i].fPrimeX = fPrime(expression, iterations[i].x)
       /\ i > 1 => iterations[i].x = NewtonNext(expression, iterations[i-1].x)
  /\ (/\ expression = "x^2 - 2"
      /\ Len(iterations) >= 2
      /\ iterations[1].x = Num(3, 0))
     => iterations[2].x = Sub(Num(3, 0), Div(Num(7, 0), Num(6, 0)))

\* x^2 - 2 from the guess 3 after its first steps
C15_Witness ==
  /\ expression = "x^2 - 2"
  /\ Len(iterations) >= 3
  /\ iterations[1].x = Num(3, 0)
  /\ iterations[1].fx = Num(7, 0)
  /\ iterations[1].fPrimeX = Num(6, 0)
  /\ Less(iterations[2].x, Num(184, -2))
  /\ Less(Num(183, -2), iterations[2].x) \/ iterations[2].x = Num(183, -2)

\* C17: after a call that threw, a setInitialGuess(x0) with f(x0) and f'(x0)
\* finite returns and leaves the one record of x0, and a reset() returns and
\* leaves the solver without a guess.
C17_UsableAfterFailure ==
  [][error # NoError =>
       /\ (/\ lastOp' = "setInitialGuess"
           /\ isFinite(f(expression, lastArg'))
           /\ isFinite(fPrime(expression, lastArg')))
          => /\ error' = NoError
             /\ Len(iterations') = 1
             /\ iterations'[1].n = 0
             /\ iterations'[1].x = lastArg'
             /\ currentX' = lastArg'
       /\ lastOp' = "reset"
          => /\ error' = NoError
             /\ iterations' = <<>>
             /\ currentX' = Null]_vars

\* a new guess was accepted right after a step had failed on an active solver
C17_Witness ==
  /\ lastOp = "setInitialGuess"
  /\ error = NoError
  /\ before.error \in {ErrZeroDerivative, ErrDiverged, ErrSingularity,
                       ErrDerivativeSingularity}
  /\ Len(before.iterations) >= 1
  /\ Len(iterations) = 1

\* the call just made was a nextIteration() on 1/x in a session begun at the
\* guess 1, from an iterate that is finite and not zero
C16_StepOfScenario ==
  /\ expression = "1/x"
  /\ lastOp = "nextIteration"
  /\ Len(before.iterations) >= 1
  /\ before.iterations[1].x = Num(1, 0)
  /\ isFinite(before.currentX)
  /\ before.currentX # Zero

\* C16 (as claimed): for 1/x from the guess 1 the first step gives 2,
\* hasConverged() is false after every step, and no nextIteration() raises
\* while the iterate is finite and not zero.
C16_NeverRaises ==
  C16_StepOfScenario =>
    /\ error = NoError
    /\ iterations[2].x = Num(2, 0)
    /\ ~hasConvergedDefault(iterations)

\* C16 (amended): for 1/x from the guess 1 the first step gives 2,
\* hasConverged() is false after every call, and a nextIteration() from a
\* finite nonzero iterate returns while |f'(x)| = 1/x^2 is at least 1e-12 and
\* throws the zero-derivative error once it is below, from x = 2^20 on.
C16_RaisesOnlyOnFlatTangent ==
  C16_StepOfScenario =>
    /\ ~hasConvergedDefault(iterations)
    /\ Len(iterations) >= 2 => iterations[2].x = Num(2, 0)
    /\ IF Less(Abs(fPrime(expression, before.currentX)), Num(1, -12))
       THEN /\ error = ErrZeroDerivative
            /\ Less(Num(1, 6), before.currentX)
       ELSE /\ error = NoError
            /\ Less(before.currentX, currentX)

\* the twenty-first call, at the iterate 2^20, has thrown
C16_Witness ==
  /\ C16_StepOfScenario
  /\ Len(iterations) = 21
  /\ error = ErrZeroDerivative
  /\ Less(Num(1, 6), currentX)
  /\ Less(currentX, Num(11, 5))
  /\ ~hasConvergedDefault(iterations)

\* C18 (as claimed): a compiled function returns a number, NaN included,
\* for every real argument, and no evaluation fault leaves it.
C18_NumberOrNaN ==
  lastOp = "evaluate" =>
    /\ value # Throw
    /\ IsNumber(value)

\* the names of functionsRequiringArgs that lack their argument in a text
C19_NamesMissingArgument(text) ==
  { n \in 1..Len(functionsRequiringArgs) :
      MissingArgument(trim(text), functionsRequiringArgs[n]) }

\* C19: validateExpression reports an empty or blank text as empty, and
\* otherwise a function name without its opening parenthesis, by name, in
\* both cases before it has tested the heuristic pattern, parsed the text or
\* called a compiled function.
C19_ChecksInOrder ==
  validation # NotValidated =>
    /\ trim(validation.text) = <<>> =>
         validation.result = Verdict(FALSE, ErrEmpty, FALSE, FALSE, 0)
    /\ (trim(validation.text) # <<>>
        /\ C19_NamesMissingArgument(validation.text) # {}) =>
         /\ ~validation.result.valid
         /\ \E n \in C19_NamesMissingArgument(validation.text) :
              validation.result.error
                = ErrMissingArgument(Join(functionsRequiringArgs[n]))
         /\ ~validation.result.heuristic
         /\ ~validation.result.parsed
         /\ validation.result.probes = 0

\* "floor", which the heuristic pattern would reject, is reported as a
\* function without its argument
C19_Witness ==
  /\ lastOp = "validateExpression"
  /\ validation.text = <<"f", "l", "o", "o", "r">>
  /\ ~validMathPattern(validation.text)
  /\ validation.result.error
       = "Function \"floor\" requires an argument, e.g., floor(x)"
  /\ validation.result.probes = 0

\* C14 (as claimed): no change a caller makes to the array getIterations()
\* returned, or to a record in it, alters what getIterations() and
\* hasConverged() give afterwards.
C14_NoAliasing ==
  [][lastOp' = "caller" =>
       /\ getIterations(iterations') = getIterations(iterations)
       /\ hasConvergedDefault(iterations') = hasConvergedDefault(iterations)
    ]_vars

\* C20: a setInitialGuess, nextIteration or reset of one solver leaves the
\* history and the current iterate of the other solver as they were.
C20_SolversIsolated ==
  [][/\ (lastInst' = "A" /\ lastOp' \in Methods) =>
          /\ solverB'.iterations = solverB.iterations
          /\ solverB'.currentX = solverB.currentX
     /\ (lastInst' = "B" /\ lastOp' \in Methods) =>
          /\ iterations' = iterations
          /\ currentX' = currentX
    ]_vars

\* the second solver has stepped while the first holds a history of its own
C20_Witness ==
  /\ lastInst = "B"
  /\ lastOp = "nextIteration"
  /\ error = NoError
  /\ Len(solverB.iterations) >= 2
  /\ Len(iterations) >= 2
  /\ before.iterations = iterations
  /\ currentX # solverB.currentX

\* C21 (as claimed): the progress lies in [0, 1] for every current and
\* initial |f| and target, is 1 when initial <= target or current <= 0, is 0
\* when current >= initial, and with initial and target fixed does not
\* decrease when the current |f| does.
C21_ProgressInUnitInterval ==
  progress # NoProgress =>
    /\ LessEq(Zero, progress.result)
    /\ LessEq(progress.result, Num(1, 0))
    /\ (progress.last.initial = progress.initial
        /\ progress.last.target = progress.target
        /\ LessEq(Abs(progress.current), Abs(progress.last.current))) =>
         LessEq(progress.last.result, progress.result)

\* C22 (as claimed): whenever |f| at the latest iterate is below the
\* tolerance, the initial guess included, the solver reports convergence.
C22_RootReportedAtEveryIterate ==
  (Len(iterations) >= 1 /\ Less(Abs(Last(iterations).fx), DefaultTolerance))
    => hasConvergedDefault(iterations)

\* C24: a nextIteration() called while hasConverged() is true is not refused
\* for that: it throws only the errors of any step, and when the derivative
\* is not near zero and the next point and f, f' there are finite it appends
\* one record and moves to the next point.
C24_StepAfterConvergence ==
  [][(lastOp' = "nextIteration" /\ hasConvergedDefault(iterations)) =>
       /\ error' \in {NoError, ErrZeroDerivative, ErrDiverged, ErrSingularity,
                      ErrDerivativeSingularity}
       /\ (/\ ~Less(Abs(fPrime(expression, currentX)), Num(1, -12))
           /\ isFinite(NewtonNext(expression, currentX))
           /\ isFinite(f(expression, NewtonNext(expression, currentX)))
           /\ isFinite(fPrime(expression, NewtonNext(expression, currentX))))
          => /\ error' = NoError
             /\ Len(iterations') = Len(iterations) + 1
             /\ currentX' = NewtonNext(expression, currentX)
    ]_vars

\* a step taken from a converged history has appended a record
C24_Witness ==
  /\ lastOp = "nextIteration"
  /\ error = NoError
  /\ hasConvergedDefault(before.iterations)
  /\ Len(iterations) = Len(before.iterations) + 1

\* the errors setInitialGuess throws
C27_GuessErrors == {ErrFunctionUndefined, ErrDerivativeUndefined}

\* C27: a setInitialGuess that throws leaves the history and currentX as they
\* were, and a nextIteration() that follows it on an active solver appends to
\* the earlier session's records, stepping from its last iterate.
C27_FailedGuessKeepsSession ==
  [][/\ (lastOp' = "setInitialGuess" /\ error' # NoError) =>
          /\ error' \in C27_GuessErrors
          /\ iterations' = iterations
          /\ currentX' = currentX
     /\ (/\ lastOp' = "nextIteration"
         /\ lastOp = "setInitialGuess"
         /\ error \in C27_GuessErrors
         /\ iterations # <<>>
         /\ error' = NoError) =>
          /\ Len(iterations') = Len(iterations) + 1
          /\ SubSeq(iterations', 1, Len(iterations)) = iterations
          /\ Last(iterations').prevX = currentX
    ]_vars

\* a step has continued a session after a guess was refused in between
C27_Witness ==
  /\ lastOp = "nextIteration"
  /\ error = NoError
  /\ before.error \in C27_GuessErrors
  /\ Len(iterations) >= 2
  /\ Last(iterations).prevX = before.currentX

\* C28: every record of the history has finite fx and fPrimeX, and every
\* record after the first a finite x.
C28_RecordsFinite ==
  \A i \in 1..Len(iterations) :
    /\ isFinite(iterations[i].fx)
    /\ isFinite(iterations[i].fPrimeX)
    /\ i >= 2 => isFinite(iterations[i].x)

\* a step that landed on a singularity has committed nothing
C28_Witness ==
  /\ lastOp = "nextIteration"
  /\ error \in {ErrSingularity, ErrDerivativeSingularity}
  /\ iterations = before.iterations
  /\ iterations # <<>>
  /\ C28_RecordsFinite

\* C29: a record with n >= 1 stores the tangent taken at the iterate before
\* it: tangentSlope = f'(prevX), tangentIntercept = f(prevX) - f'(prevX)*prevX.
C29_TangentAtPreviousPoint ==
  \A i \in 2..Len(iterations) :
    /\ iterations[i].prevX = iterations[i - 1].x
    /\ iterations[i].tangentSlope = fPrime(expression, iterations[i].prevX)
    /\ iterations[i].tangentIntercept
         = Sub(f(expression, iterations[i].prevX),
               Mul(fPrime(expression, iterations[i].prevX),
                   iterations[i].prevX))

\* a record whose stored slope is not the derivative at its own point
C29_Witness ==
  /\ Len(iterations) >= 2
  /\ iterations[2].tangentSlope = iterations[1].fPrimeX
  /\ iterations[2].tangentSlope # iterations[2].fPrimeX

\* the central difference (f(x + 1e-8) - f(x - 1e-8)) / (2 * 1e-8)
C26_CentralDifference(expr, x) ==
  Div(Sub(f(expr, Add(x, Num(1, -8))), f(expr, Sub(x, Num(1, -8)))),
      Mul(Num(2, 0), Num(1, -8)))

\* C26: the derivative of a solver whose expression math.js cannot
\* differentiate is the central difference with h = 1e-8 over the compiled
\* function, at the guess and at every later iterate; the derivative of any
\* other solver is the compiled symbolic derivative throughout.
C26_DerivativeStrategyFixed ==
  \A i \in 1..Len(iterations) :
    IF expression \in NotDifferentiable
    THEN iterations[i].fPrimeX
           = C26_CentralDifference(expression, iterations[i].x)
    ELSE iterations[i].fPrimeX
           = f(derivativeExpr(expression), iterations[i].x)

\* sign(x) from the guess 0: the difference quotient 2 / 2e-8 at the guess
\* and again at the next iterate
C26_Witness ==
  /\ expression = "sign(x)"
  /\ Len(iterations) >= 2
  /\ iterations[1].fPrimeX = Num(1, 8)
  /\ iterations[2].fPrimeX = Num(1, 8)

\* C23: in the application the converged flag is set exactly while the held
\* solver reports convergence, the Next Iteration control is disabled while
\* the flag is set, and no nextIteration() is requested from a session whose
\* flag is set
C23_NoStepWhileConverged ==
  [][/\ app'.held =>
          (app'.hasConverged
             <=> hasConverged(iterations', DefaultTolerance))
     /\ app'.hasConverged => nextDisabled(app')
     /\ lastOp' = "handleNextIteration" =>
          ~app.hasConverged
          /\ ~hasConverged(iterations, DefaultTolerance)]_vars

\* a successful step has just made the session converged
C23_Witness ==
  /\ lastOp = "handleNextIteration"
  /\ error = NoError
  /\ app.hasConverged
  /\ hasConverged(iterations, DefaultTolerance)

\* C25: in the application the held solver was built for the expression of
\* the Graph Function request that made it, and received one setInitialGuess,
\* with the guess of that request, before any step: its history starts with
\* that guess and a new request never re-initializes the solver in use
C25_OneGuessPerSolver ==
  app.held =>
    /\ app.guessCalls = 1
    /\ expression = app.functionExpression
    /\ Len(iterations) >= 1
    /\ iterations[1].n = 0
    /\ iterations[1].x = app.initialGuess
    /\ (lastOp = "handleGraphFunction" /\ error = NoError
          => Len(iterations) = 1)

\* a Graph Function request succeeded while a stepped solver, of another
\* expression, was in use
C25_Witness ==
  /\ lastOp = "handleGraphFunction"
  /\ error = NoError
  /\ Len(before.iterations) >= 2
  /\ expression = "1/x"
  /\ app.held

\* C30 as stated: after every handler the displayed list is the history of
\* the held solver (empty when none is held), the active flag is set exactly
\* when a solver is held, and a failed Graph Function or a failed step
\* changes nothing but the error message
C30_FailureChangesOnlyError ==
  [][/\ app'.shown = (IF app'.held THEN iterations' ELSE <<>>)
     /\ app'.isActive = app'.held
     /\ (lastOp' \in {"handleGraphFunction", "handleNextIteration"}
          /\ error' # NoError)
          => /\ app' = [app EXCEPT !.error = messageOf(error')]
             /\ heldSolver' = heldSolver]_vars

\* C30, amended: after every handler the displayed list is the history of
\* the held solver (empty when none is held) and the active flag is set
\* exactly when a solver is held; a failed step changes only the error
\* message, a failed Graph Function changes the error message and clears
\* the selected element
C30_DisplayFollowsSolver ==
  [][/\ app'.shown = (IF app'.held THEN iterations' ELSE <<>>)
     /\ app'.isActive = app'.held
     /\ (lastOp' = "handleGraphFunction" /\ error' # NoError)
          => /\ app' = [app EXCEPT !.error = messageOf(error'),
                                   !.selectedElement = "none"]
             /\ heldSolver' = heldSolver
     /\ (lastOp' = "handleNextIteration" /\ error' # NoError)
          => /\ app' = [app EXCEPT !.error = messageOf(error')]
             /\ heldSolver' = heldSolver]_vars

\* a Graph Function request failed while a stepped session with a selected
\* element was shown
C30_Witness ==
  /\ lastOp = "handleGraphFunction"
  /\ error # NoError
  /\ app.held
  /\ Len(iterations) >= 2
  /\ app.shown = iterations
  /\ app.selectedElement = "none"
  /\ app.error # ""

====
